---------------------------- MODULE Spec2Model ----------------------------
(***************************************************************************)
(* A model of cost_model.py: the construction-cost evaluator compute_costs *)
(* and the widget callback update that redraws the plot from it.           *)
(*                                                                         *)
(* The program computes in numpy float64.  The model computes in a binary  *)
(* floating-point format of the same shape (sign, mantissa, exponent,      *)
(* round to nearest even, NaN from the square root of a negative number)   *)
(* with a mantissa of MantissaBits bits, so that every intermediate        *)
(* product fits the integers of the model checker.                         *)
(***************************************************************************)
EXTENDS Integers, Sequences, FiniteSets, TLC

(***************************************************************************)
(* Bounds of the model.                                                    *)
(***************************************************************************)
\* number of sampled diameters (np.linspace(6, 50, 300) in the program)
NSamples == 23
\* width of a float's mantissa (53 bits in the program)
MantissaBits == 14

(***************************************************************************)
(* Floating-point numbers: m * 2^e with 2^(P-1) <= |m| < 2^P, zero, or NaN *)
(***************************************************************************)
P == MantissaBits

F(m, e) == [nan |-> FALSE, m |-> m, e |-> e]
NaN == [nan |-> TRUE, m |-> 0, e |-> 0]
Zero == F(0, 0)

Abs(n) == IF n < 0 THEN -n ELSE n
Sgn(n) == IF n < 0 THEN -1 ELSE IF n > 0 THEN 1 ELSE 0

RECURSIVE BitLen(_)
BitLen(n) == IF n = 0 THEN 0 ELSE 1 + BitLen(n \div 2)

\* u / 2^k for u >= 0, rounded to the nearest integer, ties to even;
\* sticky says that bits below u were already dropped
ShiftRound(u, k, sticky) ==
    IF k = 0 THEN u
    ELSE IF k > 30 THEN 0
    ELSE LET q == u \div (2 ^ k)
             r == u % (2 ^ k)
             half == 2 ^ (k - 1)
             up == \/ r > half
                   \/ r = half /\ (sticky \/ q % 2 = 1)
         IN  IF up THEN q + 1 ELSE q

\* the float nearest to m * 2^e
NormS(m, e, sticky) ==
    IF m = 0 THEN Zero
    ELSE LET u == Abs(m)
             L == BitLen(u)
         IN  IF L <= P THEN F(Sgn(m) * u * 2 ^ (P - L), e - (P - L))
             ELSE LET q == ShiftRound(u, L - P, sticky)
                  IN  IF q = 2 ^ P THEN F(Sgn(m) * 2 ^ (P - 1), e + (L - P) + 1)
                      ELSE F(Sgn(m) * q, e + (L - P))

Norm(m, e) == NormS(m, e, FALSE)

FromInt(n) == Norm(n, 0)

FNeg(x) == IF x.nan THEN NaN ELSE F(-x.m, x.e)

FMul(x, y) ==
    IF x.nan \/ y.nan THEN NaN
    ELSE IF x.m = 0 \/ y.m = 0 THEN Zero
    ELSE Norm(x.m * y.m, x.e + y.e)

FAdd(x, y) ==
    IF x.nan \/ y.nan THEN NaN
    ELSE IF x.m = 0 THEN y
    ELSE IF y.m = 0 THEN x
    ELSE LET hi == IF x.e >= y.e THEN x ELSE y
             lo == IF x.e >= y.e THEN y ELSE x
             d == hi.e - lo.e
         IN  IF d > P THEN hi
             ELSE Norm(hi.m * 2 ^ d + lo.m, lo.e)

FSub(x, y) == FAdd(x, FNeg(y))

\* x / y; the program never divides by zero (its divisors are 2, a, D_12m,
\* D**2 and 1e9), so the quotient by zero is left as NaN
FDiv(x, y) ==
    IF x.nan \/ y.nan \/ y.m = 0 THEN NaN
    ELSE IF x.m = 0 THEN Zero
    ELSE LET num == Abs(x.m) * 2 ^ P
             den == Abs(y.m)
             q == num \div den
             r == num % den
             s == Sgn(x.m) * Sgn(y.m)
             ex == x.e - y.e - P
         IN  IF q >= 2 ^ P
             THEN NormS(s * q, ex, r > 0)
             ELSE LET up == 2 * r > den \/ (2 * r = den /\ q % 2 = 1)
                  IN  Norm(s * (IF up THEN q + 1 ELSE q), ex)

RECURSIVE ISqrtIter(_, _, _)
ISqrtIter(v, lo, hi) ==
    IF lo >= hi THEN lo
    ELSE LET mid == (lo + hi + 1) \div 2
         IN  IF mid * mid <= v THEN ISqrtIter(v, mid, hi)
             ELSE ISqrtIter(v, lo, mid - 1)

\* largest r with r * r <= v, for 0 <= v < 2^(2P)
ISqrt(v) == ISqrtIter(v, 0, 2 ^ P)

\* np.sqrt: NaN for a negative argument
FSqrt(x) ==
    IF x.nan \/ x.m < 0 THEN NaN
    ELSE IF x.m = 0 THEN Zero
    ELSE LET k == IF (x.e - P) % 2 = 0 THEN P ELSE P - 1
             v == x.m * 2 ^ k
             r == ISqrt(v)
             up == v - r * r > r
         IN  Norm(IF up THEN r + 1 ELSE r, (x.e - k) \div 2)

\* comparisons; every comparison with NaN is false
FLt(x, y) == ~x.nan /\ ~y.nan /\ FSub(x, y).m < 0
FLe(x, y) == ~x.nan /\ ~y.nan /\ FSub(x, y).m <= 0
FGt(x, y) == FLt(y, x)
FGe(x, y) == FLe(y, x)

\* m * 2^e rounded to the nearest integer, ties to even
RoundInt(m, e) ==
    IF e >= 0 THEN m * 2 ^ e
    ELSE Sgn(m) * ShiftRound(Abs(m), -e, FALSE)


\* f"{x:.2f}": x in hundredths, rounded to the nearest, ties to even
Fmt2f(x) == RoundInt(x.m * 100, x.e)

RECURSIVE IPow(_, _)
IPow(x, k) == IF k = 0 THEN FromInt(1) ELSE FMul(IPow(x, k - 1), x)

Pow10th(r) == LET r2 == FMul(r, r)
                  r4 == FMul(r2, r2)
                  r5 == FMul(r4, r)
              IN  FMul(r5, r5)

RECURSIVE RootIter(_, _, _)
RootIter(x, lo, hi) ==
    IF lo >= hi THEN lo
    ELSE LET mid == (lo + hi + 1) \div 2
         IN  IF FLe(Pow10th(Norm(mid, -(P - 1))), x) THEN RootIter(x, mid, hi)
             ELSE RootIter(x, lo, mid - 1)

\* the tenth root of x, for 2^-10 <= x < 2^10
Root10(x) == Norm(RootIter(x, 2 ^ (P - 2), 2 ^ P), -(P - 1))

(***************************************************************************)
(* compute_costs: the arrays of the program are functions on Idx, computed *)
(* element by element as numpy does.                                       *)
(***************************************************************************)
Idx == 1 .. NSamples

\* an array with its elements computed once
Arr(f) == f @@ <<>>

\* np.pi
Pi == FDiv(FromInt(314159265), FromInt(100000000))

\* np.linspace(6, 50, 300)[i-1]: start + i * step, the last sample the stop
linspace(i) ==
    LET step == FDiv(FromInt(50 - 6), FromInt(NSamples - 1))
    IN  IF i = NSamples THEN FromInt(50)
        ELSE FAdd(FromInt(6), FMul(FromInt(i - 1), step))

\* antenna diameters in meters
D == Arr([i \in Idx |-> linspace(i)])

\* current antenna size in m
D_12m == 12
\* current number of antennas
n_12m == 50

\* (1-0.3)**2
Eff2 == LET e == FSub(FromInt(1), FDiv(FromInt(3), FromInt(10))) IN FMul(e, e)

\* the integrated regime, at one diameter d
A_new(d) == FDiv(FMul(Pi, FMul(d, d)), FromInt(4))
A_old == FDiv(FMul(Pi, FromInt(D_12m * D_12m)), FromInt(4))

\* a = A_new**2
a(An) == FMul(An, An)

\* the expression for b left commented out in the source:
\* (n_12m*A_old - 1)*Anew
b_commented(An) == FMul(FSub(FMul(FromInt(n_12m), A_old), FromInt(1)), An)

\* b = 2*n_12m*A_old*A_new - A_new**2
b(An) == FSub(FMul(FMul(FromInt(2 * n_12m), A_old), An), FMul(An, An))

N == n_12m * (n_12m - 1)

\* c = (1-SNR**2*(1-0.3)**2)*N*A_old**2
c_int(SNR) ==
    FMul(FMul(FSub(FromInt(1), FMul(FMul(SNR, SNR), Eff2)), FromInt(N)),
         FMul(A_old, A_old))

\* b**2-4*a*c
disc_of(av, bv, cv) == FSub(FMul(bv, bv), FMul(FMul(FromInt(4), av), cv))

\* (-b + np.sqrt(b**2-4*a*c))/2/a
root_of(av, bv, cv) ==
    FDiv(FDiv(FAdd(FNeg(bv), FSqrt(disc_of(av, bv, cv))), FromInt(2)), av)

disc_int(d, SNR) == disc_of(a(A_new(d)), b(A_new(d)), c_int(SNR))

n2_int(d, SNR) == root_of(a(A_new(d)), b(A_new(d)), c_int(SNR))

\* the standalone regime, at one diameter d
\* (D_12m**2/D**2)**2
q2(q) == FMul(q, q)

\* c with the efficiency factor (1-0.3)**2 left out
c_alone_no_eff(d, SNR) ==
    FMul(FMul(FMul(FromInt(2), FMul(SNR, SNR)),
              q2(FDiv(FromInt(D_12m * D_12m), FMul(d, d)))),
         FDiv(FromInt(n_12m * (n_12m - 1)), FromInt(2)))

\* c = 2*SNR**2 * (D_12m**2/D**2)**2*(1-0.3)**2 * (n_12m*(n_12m-1)/2)
c_alone(d, SNR) ==
    FMul(FMul(FMul(FMul(FromInt(2), FMul(SNR, SNR)),
                   q2(FDiv(FromInt(D_12m * D_12m), FMul(d, d)))),
              Eff2),
         FDiv(FromInt(n_12m * (n_12m - 1)), FromInt(2)))

\* 1+4*c
disc_alone(d, SNR) == FAdd(FromInt(1), FMul(FromInt(4), c_alone(d, SNR)))

\* (1+np.sqrt(1+4*c))/2
n2_alone(d, SNR) ==
    FDiv(FAdd(FromInt(1), FSqrt(disc_alone(d, SNR))), FromInt(2))

\* `if integrate:` (a list or a count; the empty list and 0 are false)
Truthy(integrate) == integrate # 0

discriminant(d, SNR, integrate) ==
    IF Truthy(integrate) THEN disc_int(d, SNR) ELSE disc_alone(d, SNR)

n2_at(d, SNR, integrate) ==
    IF Truthy(integrate) THEN n2_int(d, SNR) ELSE n2_alone(d, SNR)

\* the tenth roots of D / D_12m, on which ** alpha is computed
ratio_root == Arr([i \in Idx |-> Root10(FDiv(linspace(i), FromInt(D_12m)))])

\* x^(k/10) = x^(k div 10) * (x^(1/10))^(k mod 10), inverted for k < 0
pow_tenths(xv, root, k) ==
    IF k >= 0 THEN FMul(IPow(xv, k \div 10), IPow(root, k % 10))
    ELSE FDiv(FromInt(1), FMul(IPow(xv, (-k) \div 10), IPow(root, (-k) % 10)))

\* (D / D_12m) ** alpha at sample i, alpha a multiple of 0.1
ratio_pow(i, alpha) ==
    IF alpha.nan THEN NaN
    ELSE pow_tenths(FDiv(D[i], FromInt(D_12m)), ratio_root[i],
                    RoundInt(alpha.m * 10, alpha.e))

\* f1 * n2 * (D / D_12m) ** alpha
cost_ant_at(i, f1, n, alpha) == FMul(FMul(f1, n), ratio_pow(i, alpha))

\* f2 * n2
cost_rcv_at(f2, n) == FMul(f2, n)

\* f3 * (n2+n_12m) ** 2, or f3 * n2 ** 2
sq(t) == FMul(t, t)
cost_corr_at(f3, n, integrate) ==
    IF Truthy(integrate) THEN FMul(f3, sq(FAdd(n, FromInt(n_12m))))
    ELSE FMul(f3, sq(n))

\* the sum with the base cost left out
total_without_base(C, ant, rcv, corr) == FAdd(FAdd(ant, rcv), corr)

\* C + cost_ant + cost_rcv + cost_corr
total_cost_at(C, ant, rcv, corr) == FAdd(FAdd(FAdd(C, ant), rcv), corr)

\* the elements of the five arrays at one sample
row_of(C, n, ant, rcv, corr) ==
    [na |-> n, cost_ant |-> ant, cost_rcv |-> rcv, cost_corr |-> corr,
     total_cost |-> total_cost_at(C, ant, rcv, corr)]

costs_at(i, C, f1, f2, f3, integrate, alpha, n) ==
    row_of(C, n, cost_ant_at(i, f1, n, alpha), cost_rcv_at(f2, n),
           cost_corr_at(f3, n, integrate))

row(i, C, f1, f2, f3, SNR, integrate, alpha) ==
    costs_at(i, C, f1, f2, f3, integrate, alpha, n2_at(D[i], SNR, integrate))

\* an argmin that keeps the last of equal minima
RECURSIVE ArgMinLastIter(_, _, _)
ArgMinLastIter(v, i, best) ==
    IF i > NSamples THEN best
    ELSE IF v[i].nan THEN i
    ELSE IF FLe(v[i], v[best]) THEN ArgMinLastIter(v, i + 1, i)
    ELSE ArgMinLastIter(v, i + 1, best)

argmin_last(v) == IF v[1].nan THEN 1 ELSE ArgMinLastIter(v, 2, 1)

\* np.argmin: the first NaN if there is one, else the first minimum
RECURSIVE ArgMinIter(_, _, _)
ArgMinIter(v, i, best) ==
    IF i > NSamples THEN best
    ELSE IF v[i].nan THEN i
    ELSE IF FLt(v[i], v[best]) THEN ArgMinIter(v, i + 1, i)
    ELSE ArgMinIter(v, i + 1, best)

argmin(v) == IF v[1].nan THEN 1 ELSE ArgMinIter(v, 2, 1)

\* int(np.round(x)) of a number
np_round(v) == RoundInt(v.m, v.e)

Raised(kind) == [raised |-> kind]

\* the returned dictionary; int() of a NaN raises ValueError
returned_at(rows, min_index) ==
    IF rows[min_index].na.nan THEN Raised("ValueError")
    ELSE [raised |-> "none",
          D |-> D,
          na |-> [i \in Idx |-> rows[i].na],
          cost_ant |-> [i \in Idx |-> rows[i].cost_ant],
          cost_rcv |-> [i \in Idx |-> rows[i].cost_rcv],
          cost_corr |-> [i \in Idx |-> rows[i].cost_corr],
          total_cost |-> [i \in Idx |-> rows[i].total_cost],
          D_opt |-> D[min_index],
          C_min |-> rows[min_index].total_cost,
          new_antennae |-> np_round(rows[min_index].na)]

returned(rows) == returned_at(rows, argmin([i \in Idx |-> rows[i].total_cost]))

compute_costs(C, f1, f2, f3, SNR, integrate, alpha) ==
    returned(Arr([i \in Idx |-> row(i, C, f1, f2, f3, SNR, integrate, alpha)]))

(***************************************************************************)
(* The program's state                                                     *)
(***************************************************************************)
VARIABLES
    args,        \* the arguments of the latest call of compute_costs
    ret,         \* what that call returned, or the exception it raised
    sliders,     \* the values of the six sliders and the checkbox group
    source_left, \* the ColumnDataSource behind the four lines of the plot
    opt_marker,  \* the data source of the optimum marker
    title        \* p_left.title.text

vars == <<args, ret, sliders, source_left, opt_marker, title>>

Dec(n, d) == FDiv(FromInt(n), FromInt(d))

\* Default Parameters (in $); "integrate" is the list [1], held by its length
defaults ==
    [C |-> FromInt(50000000),
     f1 |-> FromInt(5000000),
     f2 |-> FromInt(250000),
     f3 |-> FromInt(6000),
     SNR |-> FromInt(5),
     alpha |-> Dec(27, 10),
     integrate |-> Len(<<1>>)]

call(p) == compute_costs(p.C, p.f1, p.f2, p.f3, p.SNR, p.integrate, p.alpha)

Million == FromInt(1000000)

curve_of(d) ==
    [D |-> d.D,
     total |-> d.total_cost,
     ant |-> d.cost_ant,
     rcv |-> d.cost_rcv,
     corr |-> d.cost_corr]

marker_of(d) == [x |-> <<d.D_opt>>, y |-> <<d.C_min>>]

\* the title the callback writes: D_opt and C_min / 1e9 with two decimals
\* (held in hundredths) and the rounded antenna count
title_of(d) ==
    [text |-> "Optimum D, Cost, #New Antennas",
     D_opt |-> Fmt2f(d.D_opt),
     Cost |-> Fmt2f(FDiv(d.C_min, FromInt(1000000000))),
     new_antennae |-> d.new_antennae]

\* the title the figure is built with
figure_title ==
    [text |-> "Construction Cost vs Antenna Diameter (D)",
     D_opt |-> 0, Cost |-> 0, new_antennae |-> 0]

\* the sliders as built: C and f1 in million dollars, the checkbox checked
sliders0 ==
    [C |-> FDiv(defaults.C, Million),
     f1 |-> FDiv(defaults.f1, Million),
     f2 |-> defaults.f2,
     f3 |-> defaults.f3,
     SNR |-> defaults.SNR,
     alpha |-> defaults.alpha,
     button |-> <<0>>]

\* positions the widgets can be moved to (start + k * step, within range)
Positions ==
    [C |-> {FromInt(50), FromInt(500)},
     f1 |-> {FromInt(5), Dec(5, 10)},
     f2 |-> {FromInt(250000), FromInt(2500000)},
     f3 |-> {FromInt(6000), FromInt(600)},
     SNR |-> {FromInt(1), FromInt(5), FromInt(10)},
     alpha |-> {Dec(27, 10), FromInt(4)}]

Keys == {"C", "f1", "f2", "f3", "SNR", "alpha"}

\* the dictionary with f1 taken in million dollars, as the slider shows it
values_unscaled(sl) ==
    [C |-> FMul(sl.C, Million),
     f1 |-> sl.f1,
     f2 |-> sl.f2,
     f3 |-> sl.f3,
     SNR |-> sl.SNR,
     alpha |-> sl.alpha,
     integrate |-> Len(sl.button)]

\* the dictionary update builds from the widgets
values(sl) ==
    [C |-> FMul(sl.C, Million),
     f1 |-> FMul(sl.f1, Million),
     f2 |-> sl.f2,
     f3 |-> sl.f3,
     SNR |-> sl.SNR,
     alpha |-> sl.alpha,
     integrate |-> Len(sl.button)]

\* the plot and the widgets as built from the initial data
built(data) ==
    /\ sliders = sliders0
    /\ source_left = curve_of(data)
    /\ opt_marker = marker_of(data)
    /\ title = figure_title

\* the module body up to the callback
started(data) ==
    /\ args = defaults
    /\ ret = data
    /\ built(data)

Init == started(call(defaults))

\* the callback from compute_costs on; an exception raised by compute_costs
\* leaves update before anything is assigned
redraw(vals, data_new) ==
    /\ args' = vals
    /\ ret' = data_new
    /\ IF data_new.raised # "none"
       THEN UNCHANGED <<source_left, opt_marker, title>>
       ELSE /\ source_left' = curve_of(data_new)
            /\ opt_marker' = marker_of(data_new)
            /\ title' = title_of(data_new)

\* the callback, run with the widgets at sl
update(sl) == redraw(values(sl), call(values(sl)))

\* the user moves slider key to v: on_change("value", update) fires
Slide(key, v) ==
    /\ v # sliders[key]
    /\ sliders' = [sliders EXCEPT ![key] = v]
    /\ update(sliders')

\* the user ticks or unticks the checkbox: on_change("active", update) fires
Toggle ==
    /\ sliders' = [sliders EXCEPT !.button = IF @ = <<>> THEN <<0>> ELSE <<>>]
    /\ update(sliders')

Next ==
    \/ \E key \in Keys : \E v \in Positions[key] : Slide(key, v)
    \/ Toggle

Spec == Init /\ [][Next]_vars

(***************************************************************************)
(* compute_costs as a function of its arguments: every argument is drawn   *)
(* from a small set that holds the default, a value outside the documented *)
(* range, and the ends of the slider's range.                              *)
(***************************************************************************)
NotCalled == Raised("not called")

SNRsCore == {FromInt(0), FromInt(1), FromInt(5)}
SNRsAll == {Dec(5, 10), Dec(14, 10), Dec(15, 10)} \cup {FromInt(k) : k \in 0 .. 10}
Alphas == {FromInt(0), Dec(27, 10), FromInt(4)}

ArgSpace ==
    [C : {FromInt(0), defaults.C},
     f1 : {FromInt(0), defaults.f1},
     f2 : {FromInt(0), defaults.f2},
     f3 : {FromInt(0), defaults.f3},
     SNR : SNRsCore, integrate : {0, 1}, alpha : Alphas]
    \cup
    [C : {defaults.C}, f1 : {defaults.f1}, f2 : {defaults.f2},
     f3 : {defaults.f3},
     SNR : SNRsAll, integrate : {0, 1}, alpha : Alphas]

\* the program as built, and a caller about to call compute_costs(**args)
FnInit ==
    /\ built(call(defaults))
    /\ ret = NotCalled
    /\ args \in ArgSpace

Call ==
    /\ ret = NotCalled
    /\ ret' = call(args)
    /\ UNCHANGED <<args, sliders, source_left, opt_marker, title>>

FnNext == Call

FnSpec == FnInit /\ [][FnNext]_vars

(***************************************************************************)
(* The claims of the specification.                                        *)
(***************************************************************************)
Called == ret.raised # "not called"
Returned == ret.raised = "none"

\* a valid parameter set: base cost and cost factors positive,
\* sensitivity gain at least 1, scaling exponent at least 0
Valid(p) ==
    /\ FGt(p.C, Zero) /\ FGt(p.f1, Zero) /\ FGt(p.f2, Zero) /\ FGt(p.f3, Zero)
    /\ FGe(p.SNR, FromInt(1))
    /\ FGe(p.alpha, Zero)

\* a parameter set the specification requires to be rejected
Invalid(p) ==
    \/ FLe(p.C, Zero) \/ FLe(p.f1, Zero) \/ FLe(p.f2, Zero) \/ FLe(p.f3, Zero)
    \/ FLt(p.SNR, FromInt(1))

NegativeDiscriminant(p) ==
    \E i \in Idx : FLt(discriminant(D[i], p.SNR, p.integrate), Zero)

\* C1, as the specification states it: for a valid parameter set, in both
\* regimes, the antenna count is >= 0 at every sampled diameter.
C1_CountNonNegative ==
    (Returned /\ Valid(args)) => \A i \in Idx : FGe(ret.na[i], Zero)

\* C2, as the specification states it: when the discriminant is negative at
\* a sampled diameter, compute_costs fails with a domain error (and returns
\* no curve).
C2_DomainError ==
    (Called /\ NegativeDiscriminant(args)) => ret.raised = "DomainError"

\* C3, as the specification states it: a call with a non-positive base cost
\* or cost factor, or with a sensitivity gain below 1, is rejected with an
\* invalid-parameter error before any curve is produced.
C3_InvalidRejected ==
    (Called /\ Invalid(args)) => ret.raised = "InvalidParameterError"

\* C4: in every returned result, at every sample, total_cost is
\* base_cost + cost_ant + cost_rcv + cost_corr of the same result.
C4_AdditiveIdentity ==
    Returned =>
        \A i \in Idx :
            ret.total_cost[i] =
                FAdd(FAdd(FAdd(args.C, ret.cost_ant[i]), ret.cost_rcv[i]),
                     ret.cost_corr[i])

\* C4's case: a standalone evaluation with the default base cost whose
\* components are all positive at the first sample.
C4_Witness ==
    /\ Returned
    /\ args.integrate = 0
    /\ args.C = defaults.C
    /\ FGt(ret.cost_ant[1], Zero)
    /\ FGt(ret.cost_rcv[1], Zero)
    /\ FGt(ret.cost_corr[1], Zero)
    /\ FGt(ret.total_cost[1], args.C)

\* r is v rounded to the nearest integer
IsNearestInt(v, r) ==
    IF v.e >= 0 THEN r = v.m * 2 ^ v.e
    ELSE IF v.e < -(P + 1) THEN r = 0
    ELSE 2 * Abs(v.m - r * 2 ^ (-v.e)) <= 2 ^ (-v.e)

\* C5: the reported optimum is taken at the lowest index k whose total cost
\* is <= every sample's: D_opt = D[k], C_min = total_cost[k] and
\* new_antennae is the antenna count at k rounded to the nearest integer.
C5_FirstMinimum ==
    Returned =>
        \E k \in Idx :
            /\ \A i \in Idx : FLe(ret.total_cost[k], ret.total_cost[i])
            /\ \A j \in 1 .. (k - 1) : FLt(ret.total_cost[k], ret.total_cost[j])
            /\ ret.D_opt = ret.D[k]
            /\ ret.C_min = ret.total_cost[k]
            /\ IsNearestInt(ret.na[k], ret.new_antennae)

\* C5's case: a result whose total cost is the same at every sample (a tie),
\* reported at the first sample.
C5_Witness ==
    /\ Returned
    /\ \A i \in Idx : ret.total_cost[i] = ret.total_cost[1]
    /\ ret.D_opt = ret.D[1]
    /\ ret.D_opt # ret.D[NSamples]

\* what compute_costs returns for the widget values sl: C and f1 in million
\* dollars, integrate when the checkbox is checked
C6_Evaluated(sl) ==
    compute_costs(FMul(sl.C, FromInt(1000000)), FMul(sl.f1, FromInt(1000000)),
                  sl.f2, sl.f3, sl.SNR,
                  IF sl.button = <<>> THEN 0 ELSE 1, sl.alpha)

C6_Displayed(data) ==
    /\ data.raised = "none"
    /\ source_left'.D = data.D
    /\ source_left'.total = data.total_cost
    /\ source_left'.ant = data.cost_ant
    /\ source_left'.rcv = data.cost_rcv
    /\ source_left'.corr = data.cost_corr
    /\ opt_marker' = [x |-> <<data.D_opt>>, y |-> <<data.C_min>>]
    /\ title'.D_opt = Fmt2f(data.D_opt)
    /\ title'.Cost = Fmt2f(FDiv(data.C_min, FromInt(1000000000)))
    /\ title'.new_antennae = data.new_antennae

\* C6: after every slider or checkbox change, the displayed curve, optimum
\* marker and title values are those of compute_costs applied to the
\* current widget values alone.
C6_HistoryIndependent ==
    [][\A sl \in {sliders'} : C6_Displayed(C6_Evaluated(sl))]_vars

\* C6's case: the widgets are back at their initial values after changes
\* (the title is no longer the one the figure was built with).
C6_Witness ==
    /\ sliders = sliders0
    /\ title # figure_title
    /\ args = defaults

\* C8, as the specification states it: standalone, sensitivity gain 1, at
\* D = 12 the antenna count and the correlator cost are about 0.
C8_NearZero ==
    (Returned /\ args.integrate = 0 /\ args.SNR = FromInt(1)) =>
        \A i \in Idx :
            ret.D[i] = FromInt(D_12m) =>
                /\ FLt(ret.na[i], FromInt(1))
                /\ FLe(ret.cost_corr[i], args.f3)

\* C8, amended: in the standalone regime the antenna count is at least 1 at
\* every sample; with sensitivity gain 1, at D = 12 it lies between 35 and
\* 36 and the correlator cost between f3 * 35^2 and f3 * 36^2.
C8_Standalone ==
    (Returned /\ args.integrate = 0) =>
        \A i \in Idx :
            /\ FGe(ret.na[i], FromInt(1))
            /\ (args.SNR = FromInt(1) /\ ret.D[i] = FromInt(D_12m)) =>
                   /\ FGt(ret.na[i], FromInt(35))
                   /\ FLt(ret.na[i], FromInt(36))
                   /\ FLe(FMul(args.f3, FromInt(35 * 35)), ret.cost_corr[i])
                   /\ FLe(ret.cost_corr[i], FMul(args.f3, FromInt(36 * 36)))

\* C8's case: a standalone evaluation with sensitivity gain 1 and a positive
\* correlator factor whose samples include D = 12.
C8_Witness ==
    /\ Returned
    /\ args.integrate = 0
    /\ args.SNR = FromInt(1)
    /\ FGt(args.f3, Zero)
    /\ \E i \in Idx : ret.D[i] = FromInt(D_12m) /\ FGt(ret.na[i], FromInt(35))

\* C9, as the specification states it: for a valid parameter set, a strictly
\* larger scaling exponent strictly increases the antenna cost at every
\* sample with D > 12 and strictly decreases it at every sample with D < 12.
C9_Monotone ==
    (Returned /\ Valid(args)) =>
        \A al \in Alphas :
            FGt(al, args.alpha) =>
                \A i \in Idx :
                    /\ FGt(D[i], FromInt(D_12m)) =>
                           FGt(cost_ant_at(i, args.f1, ret.na[i], al), ret.cost_ant[i])
                    /\ FLt(D[i], FromInt(D_12m)) =>
                           FLt(cost_ant_at(i, args.f1, ret.na[i], al), ret.cost_ant[i])

\* C10: for every sensitivity gain >= 1 the discriminant is strictly
\* positive at every sample in both regimes, the evaluation returns, and
\* every returned sequence is a number at every sample.
C10_DiscriminantPositive ==
    FGe(args.SNR, FromInt(1)) =>
        /\ \A i \in Idx : FGt(discriminant(D[i], args.SNR, args.integrate), Zero)
        /\ Called =>
               /\ Returned
               /\ \A i \in Idx :
                      /\ ~ret.na[i].nan
                      /\ ~ret.cost_ant[i].nan
                      /\ ~ret.cost_rcv[i].nan
                      /\ ~ret.cost_corr[i].nan
                      /\ ~ret.total_cost[i].nan

\* C10's case: an integrated evaluation at the slider's lowest sensitivity
\* gain, 1, has returned.
C10_Witness ==
    /\ Returned
    /\ args.SNR = FromInt(1)
    /\ args.integrate = 1

=============================================================================
